---- MODULE Spec2Model ----
(***************************************************************************)
(* A model of app/utils/pdfUtils.ts: searchPdf, processLine,              *)
(* processOcrTextForKeywords and the image-conversion handler.             *)
(*                                                                         *)
(* One call of searchPdf is a state machine whose positions are the await  *)
(* points of the async function and the iterations of its synchronous      *)
(* loops (the line-grouping loop, keywords.forEach, the regex.exec loop).  *)
(* Strings are sequences of one-character strings.  Offsets into strings   *)
(* are 0-based as in the source; sequences are 1-based.                    *)
(***************************************************************************)
EXTENDS Integers, Sequences, FiniteSets, TLC

(***************************************************************************)
(* Bounds of the model.                                                    *)
(***************************************************************************)
MaxPages == 2
MaxKeywords == 2

(* `y2 = y1 + 12` in processOcrTextForKeywords *)
OcrLineHeight == 12

(* `null`, the initial value of lastY; vertical origins are naturals *)
Null == -1

Min(a, b) == IF a <= b THEN a ELSE b
Max(a, b) == IF a >= b THEN a ELSE b
SetMin(S) == CHOOSE x \in S : \A y \in S : x <= y

RECURSIVE Concat(_)
Concat(ss) == IF ss = <<>> THEN <<>> ELSE Head(ss) \o Concat(Tail(ss))

(***************************************************************************)
(* Patterns.  A keyword is handed to `new RegExp(keyword, "gi")` as is.    *)
(* The model's pattern alphabet: letters (matched case-insensitively),     *)
(* "." (any character but a line break) and "(" (an unterminated group:    *)
(* the constructor throws a SyntaxError).  The empty keyword is the empty  *)
(* pattern, which matches the empty string at every position.              *)
(***************************************************************************)
Lower(c) == IF c = "A" THEN "a" ELSE IF c = "B" THEN "b" ELSE c

ValidPattern(kw) == \A i \in 1..Len(kw) : kw[i] # "("

CharMatches(p, c) == IF p = "." THEN c # "\n" ELSE Lower(p) = Lower(c)

(* the pattern matches text at 0-based offset i *)
MatchesAt(kw, text, i) ==
    /\ i + Len(kw) <= Len(text)
    /\ \A j \in 1..Len(kw) : CharMatches(kw[j], text[i + j])

(* regex.exec(text) of a global regex whose lastIndex is `lastIdx`:        *)
(* the leftmost match at or after lastIdx; lastIndex becomes the end of    *)
(* the match (so it does not move on an empty match), or 0 on failure.     *)
RegexExec(kw, text, lastIdx) ==
    LET cands == { i \in lastIdx..Len(text) : MatchesAt(kw, text, i) }
    IN  IF cands = {}
        THEN [found |-> FALSE, index |-> 0, text |-> <<>>, lastIndex |-> 0]
        ELSE LET i == SetMin(cands)
             IN  [found |-> TRUE, index |-> i,
                  text |-> SubSeq(text, i + 1, i + Len(kw)),
                  lastIndex |-> i + Len(kw)]

(* ocrText.split("\n") *)
RECURSIVE SplitLines(_, _)
SplitLines(text, cur) ==
    IF text = <<>> THEN <<cur>>
    ELSE IF Head(text) = "\n" THEN <<cur>> \o SplitLines(Tail(text), <<>>)
    ELSE SplitLines(Tail(text), Append(cur, Head(text)))

Split(text) == SplitLines(text, <<>>)

(***************************************************************************)
(* Viewports.  page.getViewport({scale}) of a page whose box is w x h and  *)
(* whose rotation is 0 or 180; convertToViewportPoint is the affine map    *)
(* of that viewport (the library's transform for a box with origin 0,0).   *)
(***************************************************************************)
GetViewport(page, scale) ==
    [width |-> page.w * scale, height |-> page.h * scale,
     rot |-> page.rot, scale |-> scale]

ConvertToViewportPoint(vp, x, y) ==
    IF vp.rot = 0
    THEN <<vp.scale * x, vp.height - vp.scale * y>>
    ELSE <<vp.width - vp.scale * x, vp.scale * y>>

(* adjustedViewport.convertToViewportPoint: the projection, then a flip *)
AdjustedConvert(vp, x, y) ==
    LET v == ConvertToViewportPoint(vp, x, y)
    IN  <<v[1], vp.height - v[2]>>

(***************************************************************************)
(* Coordinates are fractions n/d, because the estimates of the OCR path    *)
(* divide.  d = 0 stands for the NaN of a division 0/0.                    *)
(***************************************************************************)
Frac(n, d) == [n |-> n, d |-> d]
Whole(n) == Frac(n, 1)
FracLeq(a, b) == a.d > 0 /\ b.d > 0 /\ a.n * b.d <= b.n * a.d
FracEq(a, b) == a.d > 0 /\ b.d > 0 /\ a.n * b.d = b.n * a.d

Rect(x1, y1, x2, y2, vp, pageNumber) ==
    [x1 |-> x1, y1 |-> y1, x2 |-> x2, y2 |-> y2,
     width |-> vp.width, height |-> vp.height, pageNumber |-> pageNumber]

(* The highlight object pushed by both paths.  kw, line, path, pre and     *)
(* index are history fields of the model: the index of the keyword and of  *)
(* the line that produced it, the path, the box before the transform and   *)
(* match.index.  The random id and the comment, a copy of the matched      *)
(* text, are left out.                                                     *)
Highlight(text, rect, pageNumber, kwI, lineI, pathName, preBox, startIndex) ==
    [content |-> text,
     boundingRect |-> rect,
     rects |-> <<rect>>,
     pageNumber |-> pageNumber,
     kw |-> kwI, line |-> lineI, path |-> pathName, pre |-> preBox,
     index |-> startIndex]

(***************************************************************************)
(* processLine, the body of the exec loop (lines 149-218).                 *)
(***************************************************************************)
MaxOf(S) == CHOOSE x \in S : \A y \in S : x >= y

(* Math.max(...lineItems.map((item) => item.height)) *)
LineHeight(lineItems) == MaxOf({ lineItems[i].height : i \in 1..Len(lineItems) })

(* The walk that finds startItem and endItem (lines 152-169).  Items are   *)
(* named by their position in lineItems; `startItem === lineItems[0]` is   *)
(* the identity test s = 1.  Returns the positions <<start, end>>.         *)
RECURSIVE WalkItems(_, _, _, _, _, _)
WalkItems(lineItems, i, currentIndex, s, startIndex, endIndex) ==
    IF i > Len(lineItems) THEN <<s, Len(lineItems)>>
    ELSE LET reach == currentIndex + Len(lineItems[i].str)
             s2 == IF reach > startIndex /\ s = 1 THEN i ELSE s
         IN  IF reach >= endIndex THEN <<s2, i>>
             ELSE WalkItems(lineItems, i + 1, reach, s2, startIndex, endIndex)

StartEndItems(lineItems, startIndex, endIndex) ==
    WalkItems(lineItems, 1, 0, 1, startIndex, endIndex)

(* PreBox as it would be with the height of the tallest of the start and  *)
(* end items in place of the tallest item of the line                      *)
PreBoxTight(lineItems, startIndex, endIndex) ==
    LET se == StartEndItems(lineItems, startIndex, endIndex)
        startItem == lineItems[se[1]]
        endItem == lineItems[se[2]]
    IN  <<startItem.x, startItem.y,
          endItem.x + endItem.width,
          startItem.y + Max(startItem.height, endItem.height)>>

(* the box before the transform (lines 173-178): <<x1, y1, x2, y2>> *)
PreBox(lineItems, startIndex, endIndex) ==
    LET se == StartEndItems(lineItems, startIndex, endIndex)
        startItem == lineItems[se[1]]
        endItem == lineItems[se[2]]
    IN  <<startItem.x, startItem.y,
          endItem.x + endItem.width, startItem.y + LineHeight(lineItems)>>

(* FlipY as it would be without the second flip *)
FlipYNone(vp, ty) == ty

(* `flippedY = viewport.height - ty` (lines 186-187); viewport is the      *)
(* adjusted viewport, whose height is the page viewport's                  *)
FlipY(vp, ty) == vp.height - ty

(* LineHighlight as it would be without Math.min and Math.max *)
LineHighlightUnordered(lineItems, m, pageNumber, vp, kwI, lineI) ==
    LET box == PreBox(lineItems, m.index, m.index + Len(m.text))
        t1 == AdjustedConvert(vp, box[1], box[2])
        t2 == AdjustedConvert(vp, box[3], box[4])
        rect == Rect(Whole(t1[1]), Whole(FlipY(vp, t1[2])),
                     Whole(t2[1]), Whole(FlipY(vp, t2[2])),
                     vp, pageNumber)
    IN  Highlight(m.text, rect, pageNumber, kwI, lineI, "text", box, m.index)

(* the highlight of one match (lines 149-218) *)
LineHighlight(lineItems, m, pageNumber, vp, kwI, lineI) ==
    LET box == PreBox(lineItems, m.index, m.index + Len(m.text))
        t1 == AdjustedConvert(vp, box[1], box[2])
        t2 == AdjustedConvert(vp, box[3], box[4])
        flippedY1 == FlipY(vp, t1[2])
        flippedY2 == FlipY(vp, t2[2])
        rect == Rect(Whole(t1[1]), Whole(Min(flippedY1, flippedY2)),
                     Whole(t2[1]), Whole(Max(flippedY1, flippedY2)),
                     vp, pageNumber)
    IN  Highlight(m.text, rect, pageNumber, kwI, lineI, "text", box, m.index)

(***************************************************************************)
(* processOcrTextForKeywords, the body of the exec loop (lines 242-283).   *)
(* lineIndex is 0-based as in the source.                                  *)
(***************************************************************************)
(* OcrHighlight as it would be with the vertical estimate flipped like a  *)
(* projected point of the text-layer path                                  *)
OcrHighlightFlipped(line, lineIndex, totalLines, m, pageNumber, vp, kwI) ==
    LET startIndex == m.index
        endIndex == startIndex + Len(m.text)
        y1 == Frac(vp.height * totalLines - vp.height * lineIndex, totalLines)
        y2 == Frac(y1.n + OcrLineHeight * totalLines, totalLines)
        textLength == Len(line)
        x1 == Frac(vp.width * startIndex, textLength)
        x2 == Frac(vp.width * endIndex, textLength)
    IN  Highlight(m.text, Rect(x1, y1, x2, y2, vp, pageNumber),
                  pageNumber, kwI, lineIndex, "ocr", <<>>, startIndex)

OcrHighlight(line, lineIndex, totalLines, m, pageNumber, vp, kwI) ==
    LET startIndex == m.index
        endIndex == startIndex + Len(m.text)
        y1 == Frac(vp.height * lineIndex, totalLines)
        y2 == Frac(vp.height * lineIndex + OcrLineHeight * totalLines, totalLines)
        textLength == Len(line)
        x1 == Frac(vp.width * startIndex, textLength)
        x2 == Frac(vp.width * endIndex, textLength)
    IN  Highlight(m.text, Rect(x1, y1, x2, y2, vp, pageNumber),
                  pageNumber, kwI, lineIndex, "ocr", <<>>, startIndex)

(***************************************************************************)
(* The inputs of a call: the documents, keyword lists and zoom levels the  *)
(* model draws from.                                                       *)
(***************************************************************************)
Run(str, x, y, width, height) ==
    [str |-> str, x |-> x, y |-> y, width |-> width, height |-> height]

(* a page without a text layer *)
PageBlank == [items |-> <<>>, w |-> 200, h |-> 300, rot |-> 0]

(* one line "Ab" made of two runs of different heights *)
PageOneLine ==
    [items |-> << Run(<<"A">>, 0, 100, 10, 12), Run(<<"b">>, 10, 100, 10, 14) >>,
     w |-> 200, h |-> 300, rot |-> 0]

(* two lines, "b" above "Ab", on a page rotated by 180 degrees *)
PageTwoLines ==
    [items |-> << Run(<<"b">>, 0, 100, 10, 12), Run(<<"A", "b">>, 0, 80, 20, 12) >>,
     w |-> 200, h |-> 300, rot |-> 180]

PageSet == { PageBlank, PageOneLine, PageTwoLines }

Documents ==
    UNION { { [numPages |-> n, pages |-> ps] : ps \in [1..n -> PageSet] }
            : n \in 1..MaxPages }

KeywordSet == { <<>>, <<"a", "b">>, <<".">>, <<"(">> }

KeywordLists == UNION { [1..n -> KeywordSet] : n \in 0..MaxKeywords }

Zooms == { 1, 2 }

(* what Tesseract.recognize may read from an image *)
OcrTexts == { <<"a", "\n", "A", "b">> }

(* the lengths of the image array response.json() may resolve to for a    *)
(* document of n pages                                                     *)
ImageCounts(n) == { c \in (n - 1)..(n + 1) : c >= 0 }

PageChars(page) ==
    Len(Concat([i \in 1..Len(page.items) |-> page.items[i].str]))

(* The accumulator is tracked up to MaxHighlights entries; of the pushes   *)
(* beyond them only the parity is kept (overflow).  A pattern that does    *)
(* not match the empty string matches at most once per character of a      *)
(* line, so a call that leaves its exec loops never gets that far.         *)
MaxHighlights ==
    MaxPages * MaxKeywords
      * MaxOf({ PageChars(p) : p \in PageSet } \cup { Len(t) : t \in OcrTexts })
    + 1

(* Push as it would be with unshift in place of push *)
PushFront(hs, h) == IF Len(hs) < MaxHighlights THEN <<h>> \o hs ELSE hs

Push(hs, h) == IF Len(hs) < MaxHighlights THEN Append(hs, h) ELSE hs
Overflow(hs, o) == IF Len(hs) < MaxHighlights THEN o ELSE 1 - o

VARIABLES
    keywords, pdf, viewportZoom,      \* the arguments and the document
    pc,                               \* position in searchPdf
    path,                             \* "none", "text" or "ocr"
    pageNum,
    highlights, overflow,             \* the accumulator
    returned, outcome,                \* the value returned; "pending", "returned", "rejected"
    failedAt,                         \* history: the position where a step failed
    calls,                            \* history: the collaborator calls issued
    itemIdx, lastY, textLine, lineItems, lineNo,   \* the line-grouping loop
    kwIdx, lastIndex, ret,            \* keywords.forEach and the exec loop
    images, imgIdx, allOcr, lineIdx,  \* the OCR path
    hpc, reqBody, conversion, responses, served    \* the image-conversion handler

inputs == <<keywords, pdf, viewportZoom>>
handlerVars == <<hpc, reqBody, conversion, responses, served>>
groupVars == <<itemIdx, lastY, textLine, lineItems, lineNo>>
matchVars == <<kwIdx, lastIndex, ret>>
ocrVars == <<images, imgIdx, allOcr, lineIdx>>
vars == <<inputs, handlerVars, pc, path, pageNum, highlights, overflow, returned, outcome, failedAt,
          calls, groupVars, matchVars, ocrVars>>

Call(op, arg) == [op |-> op, arg |-> arg]

(* the image-conversion handler between requests: nothing received,       *)
(* nothing converted, nothing sent                                         *)
NoConversion == [state |-> "none", images |-> <<>>, message |-> ""]

HandlerIdle ==
    /\ hpc = "idle"
    /\ reqBody = [pdfUrl |-> "undefined"]
    /\ conversion = NoConversion
    /\ responses = <<>>
    /\ served = <<>>

Init ==
    /\ keywords \in KeywordLists
    /\ pdf \in Documents
    /\ viewportZoom \in Zooms
    /\ pc = "load"
    /\ path = "none"
    /\ pageNum = 0
    /\ highlights = <<>> /\ overflow = 0
    /\ returned = <<>>
    /\ outcome = "pending"
    /\ failedAt = "none"
    /\ calls = <<>>
    /\ itemIdx = 0 /\ lastY = Null /\ textLine = <<>> /\ lineItems = <<>> /\ lineNo = 0
    /\ kwIdx = 0 /\ lastIndex = 0 /\ ret = "none"
    /\ images = 0 /\ imgIdx = 0 /\ allOcr = <<>> /\ lineIdx = 0
    /\ HandlerIdle

(* Catch as it would be if the error were thrown again *)
CatchRethrow(c) ==
    /\ pc' = "done"
    /\ returned' = <<>>
    /\ outcome' = "rejected"
    /\ failedAt' = pc
    /\ calls' = c
    /\ UNCHANGED <<inputs, handlerVars, path, pageNum, highlights, overflow, groupVars, matchVars, ocrVars>>

(* Catch as it would be if the handler returned a fresh empty list *)
CatchDiscard(c) ==
    /\ pc' = "done"
    /\ returned' = <<>>
    /\ outcome' = "returned"
    /\ failedAt' = pc
    /\ calls' = c
    /\ UNCHANGED <<inputs, handlerVars, path, pageNum, highlights, overflow, groupVars, matchVars, ocrVars>>

(***************************************************************************)
(* lines 120-124: the catch clause logs the error and falls through to     *)
(* `return highlights`.  c is the call log at the failure.                 *)
(***************************************************************************)
Catch(c) ==
    /\ pc' = "done"
    /\ returned' = highlights
    /\ outcome' = "returned"
    /\ failedAt' = pc
    /\ calls' = c
    /\ UNCHANGED <<inputs, handlerVars, path, pageNum, highlights, overflow, groupVars, matchVars, ocrVars>>

(* line 124 after the try block has run to its end *)
ReturnHighlights ==
    /\ pc \in {"getPage", "ocrGetPage"}
    /\ pageNum > pdf.numPages
    /\ pc' = "done"
    /\ returned' = highlights
    /\ outcome' = "returned"
    /\ UNCHANGED <<inputs, handlerVars, path, pageNum, highlights, overflow, failedAt, calls,
                   groupVars, matchVars, ocrVars>>

(* line 26: await pdfjs.getDocument(pdfUrl).promise *)
LoadDocument ==
    /\ pc = "load"
    /\ LET c == Append(calls, Call("getDocument", 0))
       IN  \/ /\ pc' = "probePage"
              /\ calls' = c
              /\ UNCHANGED <<inputs, handlerVars, path, pageNum, highlights, overflow, returned, outcome,
                             failedAt, groupVars, matchVars, ocrVars>>
           \/ Catch(c)

(* line 28: await pdf.getPage(1) *)
ProbePage ==
    /\ pc = "probePage"
    /\ LET c == Append(calls, Call("getPage", 1))
       IN  \/ /\ pc' = "probeText"
              /\ calls' = c
              /\ UNCHANGED <<inputs, handlerVars, path, pageNum, highlights, overflow, returned, outcome,
                             failedAt, groupVars, matchVars, ocrVars>>
           \/ Catch(c)

(* ProbeHasText as it would be with the test inverted *)
ProbeHasNoText(doc) == Len(doc.pages[1].items) = 0

(* line 30: the probe, (await firstPage.getTextContent()).items.length > 0 *)
ProbeHasText(doc) == Len(doc.pages[1].items) > 0

ProbeText ==
    /\ pc = "probeText"
    /\ LET c == Append(calls, Call("getTextContent", 1))
       IN  \/ /\ calls' = c
              /\ IF ProbeHasText(pdf)
                 THEN path' = "text" /\ pageNum' = 1 /\ pc' = "getPage"
                 ELSE path' = "ocr" /\ pageNum' = 0 /\ pc' = "fetch"
              /\ UNCHANGED <<inputs, handlerVars, highlights, overflow, returned, outcome,
                             failedAt, groupVars, matchVars, ocrVars>>
           \/ Catch(c)

(***************************************************************************)
(* The text-layer path, lines 32-85.                                       *)
(***************************************************************************)
CurrentPage == pdf.pages[pageNum]
CurrentViewport == GetViewport(CurrentPage, viewportZoom)

(* line 33: await pdf.getPage(pageNum); line 34 builds the viewport *)
GetPage ==
    /\ pc = "getPage"
    /\ pageNum <= pdf.numPages
    /\ LET c == Append(calls, Call("getPage", pageNum))
       IN  \/ /\ pc' = "getText"
              /\ calls' = c
              /\ UNCHANGED <<inputs, handlerVars, path, pageNum, highlights, overflow, returned, outcome,
                             failedAt, groupVars, matchVars, ocrVars>>
           \/ Catch(c)

(* lines 47-52: await page.getTextContent(), then the loop's variables *)
GetTextContent ==
    /\ pc = "getText"
    /\ LET c == Append(calls, Call("getTextContent", pageNum))
       IN  \/ /\ pc' = "group"
              /\ calls' = c
              /\ itemIdx' = 1 /\ lastY' = Null /\ textLine' = <<>>
              /\ lineItems' = <<>> /\ lineNo' = 0
              /\ UNCHANGED <<inputs, handlerVars, path, pageNum, highlights, overflow, returned, outcome,
                             failedAt, matchVars, ocrVars>>
           \/ Catch(c)

(* LineBreak as it would be with a tolerance on the vertical origin *)
LineBreakTolerant(last, item, items) ==
    (last - item.y > 30 \/ item.y - last > 30) /\ Len(items) > 0

(* line 56: the test that ends a line *)
LineBreak(last, item, items) == last # item.y /\ Len(items) > 0

(* lines 69-71 *)
AppendItem(item) ==
    /\ textLine' = textLine \o item.str
    /\ lineItems' = Append(lineItems, item)
    /\ lastY' = item.y
    /\ itemIdx' = itemIdx + 1

(* lines 55-72: one iteration of the grouping loop, up to a processLine call *)
GroupItem ==
    /\ pc = "group"
    /\ itemIdx <= Len(CurrentPage.items)
    /\ LET item == CurrentPage.items[itemIdx]
       IN  IF LineBreak(lastY, item, lineItems)
           THEN /\ pc' = "keyword" /\ kwIdx' = 1 /\ ret' = "mid"
                /\ UNCHANGED <<lastIndex, groupVars>>
           ELSE /\ AppendItem(item)
                /\ UNCHANGED <<pc, lineNo, matchVars>>
    /\ UNCHANGED <<inputs, handlerVars, path, pageNum, highlights, overflow, returned, outcome,
                   failedAt, calls, ocrVars>>

(* lines 75-85: after the loop, the last line if there is one *)
GroupEnd ==
    /\ pc = "group"
    /\ itemIdx > Len(CurrentPage.items)
    /\ IF Len(lineItems) > 0
       THEN /\ pc' = "keyword" /\ kwIdx' = 1 /\ ret' = "last"
            /\ UNCHANGED <<pageNum, lastIndex>>
       ELSE /\ pc' = "getPage" /\ pageNum' = pageNum + 1
            /\ UNCHANGED matchVars
    /\ UNCHANGED <<inputs, handlerVars, path, highlights, overflow, returned, outcome,
                   failedAt, calls, groupVars, ocrVars>>

(* NewRegExp as it would be if an invalid pattern were skipped *)
NewRegExpSkip ==
    /\ pc = "keyword"
    /\ kwIdx <= Len(keywords)
    /\ IF ValidPattern(keywords[kwIdx])
       THEN pc' = "exec" /\ lastIndex' = 0 /\ UNCHANGED kwIdx
       ELSE kwIdx' = kwIdx + 1 /\ UNCHANGED <<pc, lastIndex>>
    /\ UNCHANGED <<inputs, handlerVars, path, pageNum, highlights, overflow, returned, outcome,
                   failedAt, calls, groupVars, ret, ocrVars>>

(* line 146: new RegExp(keyword, "gi"), which throws on an invalid pattern *)
NewRegExp ==
    /\ pc = "keyword"
    /\ kwIdx <= Len(keywords)
    /\ IF ValidPattern(keywords[kwIdx])
       THEN /\ pc' = "exec" /\ lastIndex' = 0
            /\ UNCHANGED <<inputs, handlerVars, path, pageNum, highlights, overflow, returned, outcome,
                           failedAt, calls, groupVars, kwIdx, ret, ocrVars>>
       ELSE Catch(calls)

(* lines 148-219: one regex.exec(text) and, on a match, the loop body *)
ExecMatch ==
    /\ pc = "exec"
    /\ LET m == RegexExec(keywords[kwIdx], textLine, lastIndex)
       IN  IF m.found
           THEN /\ highlights' = Push(highlights,
                       LineHighlight(lineItems, m, pageNum, CurrentViewport,
                                     kwIdx, lineNo))
                /\ overflow' = Overflow(highlights, overflow)
                /\ lastIndex' = m.lastIndex
                /\ UNCHANGED <<pc, kwIdx>>
           ELSE /\ pc' = "keyword" /\ kwIdx' = kwIdx + 1 /\ lastIndex' = m.lastIndex
                /\ UNCHANGED <<highlights, overflow>>
    /\ UNCHANGED <<inputs, handlerVars, path, pageNum, returned, outcome, failedAt, calls,
                   groupVars, ret, ocrVars>>

(* ProcessLineReturn as it would be without `textLine = ""` on line 66 *)
ProcessLineReturnNoReset ==
    /\ pc = "keyword"
    /\ kwIdx > Len(keywords)
    /\ IF ret = "mid"
       THEN LET item == CurrentPage.items[itemIdx]
            IN  /\ textLine' = textLine \o item.str
                /\ lineItems' = <<item>>
                /\ lastY' = item.y
                /\ itemIdx' = itemIdx + 1
                /\ lineNo' = lineNo + 1
                /\ pc' = "group"
                /\ UNCHANGED pageNum
       ELSE /\ pc' = "getPage" /\ pageNum' = pageNum + 1
            /\ UNCHANGED groupVars
    /\ UNCHANGED <<inputs, handlerVars, path, highlights, overflow, returned, outcome, failedAt, calls,
                   matchVars, ocrVars>>

(* processLine returns: to lines 66-71 (the line is reset and the item     *)
(* that ended it starts the next one) or to line 85 (the next page)        *)
ProcessLineReturn ==
    /\ pc = "keyword"
    /\ kwIdx > Len(keywords)
    /\ IF ret = "mid"
       THEN LET item == CurrentPage.items[itemIdx]
            IN  /\ textLine' = item.str
                /\ lineItems' = <<item>>
                /\ lastY' = item.y
                /\ itemIdx' = itemIdx + 1
                /\ lineNo' = lineNo + 1
                /\ pc' = "group"
                /\ UNCHANGED pageNum
       ELSE /\ pc' = "getPage" /\ pageNum' = pageNum + 1
            /\ UNCHANGED groupVars
    /\ UNCHANGED <<inputs, handlerVars, path, highlights, overflow, returned, outcome, failedAt, calls,
                   matchVars, ocrVars>>

(***************************************************************************)
(* The OCR path, lines 88-118.                                             *)
(***************************************************************************)
(* lines 90-96: await fetch("api/convertToImage", ...) *)
FetchImages ==
    /\ pc = "fetch"
    /\ LET c == Append(calls, Call("fetch", 0))
       IN  \/ /\ pc' = "json"
              /\ calls' = c
              /\ UNCHANGED <<inputs, handlerVars, path, pageNum, highlights, overflow, returned, outcome,
                             failedAt, groupVars, matchVars, ocrVars>>
           \/ Catch(c)

(* lines 99-101: await response.json().  It rejects, or resolves to an     *)
(* array of images, or resolves to the handler's error body, on which      *)
(* `for (const img of images)` throws.                                     *)
ParseResponse ==
    /\ pc = "json"
    /\ \/ \E n \in ImageCounts(pdf.numPages) :
              /\ images' = n /\ imgIdx' = 1 /\ allOcr' = <<>>
              /\ pc' = "recognize"
              /\ UNCHANGED <<inputs, handlerVars, path, pageNum, highlights, overflow, returned, outcome,
                             failedAt, calls, groupVars, matchVars, lineIdx>>
       \/ Catch(calls)

(* Recognize as it would be without the await: the next image is taken   *)
(* at once                                                                 *)
RecognizeNoAwait ==
    /\ pc = "recognize"
    /\ imgIdx <= images
    /\ imgIdx' = imgIdx + 1
    /\ calls' = Append(calls, Call("recognize", imgIdx))
    /\ UNCHANGED <<inputs, handlerVars, pc, path, pageNum, highlights, overflow, returned, outcome,
                   failedAt, groupVars, matchVars, images, allOcr, lineIdx>>

(* line 102: Tesseract.recognize(img, "eng") is called for the next image *)
Recognize ==
    /\ pc = "recognize"
    /\ imgIdx <= images
    /\ pc' = "recognizing"
    /\ calls' = Append(calls, Call("recognize", imgIdx))
    /\ UNCHANGED <<inputs, handlerVars, path, pageNum, highlights, overflow, returned, outcome,
                   failedAt, groupVars, matchVars, ocrVars>>

(* lines 102-103: the awaited recognition settles *)
Recognized ==
    /\ pc = "recognizing"
    /\ \/ \E t \in OcrTexts :
              /\ allOcr' = Append(allOcr, t)
              /\ imgIdx' = imgIdx + 1
              /\ pc' = "recognize"
              /\ UNCHANGED <<inputs, handlerVars, path, pageNum, highlights, overflow, returned, outcome,
                             failedAt, calls, groupVars, matchVars, images, lineIdx>>
       \/ Catch(calls)

(* StartOcrPages as it would be if the page loop started as soon as the   *)
(* first image has been recognized                                         *)
StartOcrPagesEarly ==
    /\ pc = "recognize"
    /\ imgIdx > Min(images, 1)
    /\ pc' = "ocrGetPage" /\ pageNum' = 1
    /\ UNCHANGED <<inputs, handlerVars, path, highlights, overflow, returned, outcome, failedAt, calls,
                   groupVars, matchVars, ocrVars>>

(* line 106: the images are exhausted, the page loop starts *)
StartOcrPages ==
    /\ pc = "recognize"
    /\ imgIdx > images
    /\ pc' = "ocrGetPage" /\ pageNum' = 1
    /\ UNCHANGED <<inputs, handlerVars, path, highlights, overflow, returned, outcome, failedAt, calls,
                   groupVars, matchVars, ocrVars>>

(* lines 107-108: await pdf.getPage(pageNum) and its viewport *)
OcrGetPage ==
    /\ pc = "ocrGetPage"
    /\ pageNum <= pdf.numPages
    /\ LET c == Append(calls, Call("getPage", pageNum))
       IN  \/ /\ pc' = "ocrSplit"
              /\ calls' = c
              /\ UNCHANGED <<inputs, handlerVars, path, pageNum, highlights, overflow, returned, outcome,
                             failedAt, groupVars, matchVars, ocrVars>>
           \/ Catch(c)

(* lines 109, 231-235: ocrText = allOcr[pageNum - 1]; ocrText.split("\n")  *)
(* throws when there is no text for the page                               *)
OcrSplit ==
    /\ pc = "ocrSplit"
    /\ IF pageNum <= Len(allOcr)
       THEN /\ pc' = "ocrLine" /\ kwIdx' = 1 /\ lineIdx' = 0
            /\ UNCHANGED <<inputs, handlerVars, path, pageNum, highlights, overflow, returned, outcome,
                           failedAt, calls, groupVars, lastIndex, ret,
                           images, imgIdx, allOcr>>
       ELSE Catch(calls)

OcrLines == Split(allOcr[pageNum])

(* line 237: new RegExp(keyword, "gi") for the next line of the keyword *)
OcrNewRegExp ==
    /\ pc = "ocrLine"
    /\ kwIdx <= Len(keywords)
    /\ lineIdx < Len(OcrLines)
    /\ IF ValidPattern(keywords[kwIdx])
       THEN /\ pc' = "ocrExec" /\ lastIndex' = 0
            /\ UNCHANGED <<inputs, handlerVars, path, pageNum, highlights, overflow, returned, outcome,
                           failedAt, calls, groupVars, kwIdx, ret, ocrVars>>
       ELSE Catch(calls)

(* lines 241-284: one regex.exec(line) and, on a match, the loop body *)
OcrExecMatch ==
    /\ pc = "ocrExec"
    /\ LET line == OcrLines[lineIdx + 1]
           m == RegexExec(keywords[kwIdx], line, lastIndex)
       IN  IF m.found
           THEN /\ highlights' = Push(highlights,
                       OcrHighlight(line, lineIdx, Len(OcrLines), m, pageNum,
                                    CurrentViewport, kwIdx))
                /\ overflow' = Overflow(highlights, overflow)
                /\ lastIndex' = m.lastIndex
                /\ UNCHANGED <<pc, lineIdx>>
           ELSE /\ pc' = "ocrLine" /\ lineIdx' = lineIdx + 1
                /\ lastIndex' = m.lastIndex
                /\ UNCHANGED <<highlights, overflow>>
    /\ UNCHANGED <<inputs, handlerVars, path, pageNum, returned, outcome, failedAt, calls,
                   groupVars, kwIdx, ret, images, imgIdx, allOcr>>

(* lines 235-236: the inner forEach is over, the next keyword starts *)
OcrNextKeyword ==
    /\ pc = "ocrLine"
    /\ kwIdx <= Len(keywords)
    /\ lineIdx >= Len(OcrLines)
    /\ kwIdx' = kwIdx + 1 /\ lineIdx' = 0
    /\ UNCHANGED <<inputs, handlerVars, pc, path, pageNum, highlights, overflow, returned, outcome,
                   failedAt, calls, groupVars, lastIndex, ret, images, imgIdx, allOcr>>

(* line 118: processOcrTextForKeywords returns, the next page *)
OcrPageDone ==
    /\ pc = "ocrLine"
    /\ kwIdx > Len(keywords)
    /\ pc' = "ocrGetPage" /\ pageNum' = pageNum + 1
    /\ UNCHANGED <<inputs, handlerVars, path, highlights, overflow, returned, outcome, failedAt, calls,
                   groupVars, matchVars, ocrVars>>

Next ==
    \/ LoadDocument \/ ProbePage \/ ProbeText
    \/ GetPage \/ GetTextContent \/ GroupItem \/ GroupEnd
    \/ NewRegExp \/ ExecMatch \/ ProcessLineReturn
    \/ FetchImages \/ ParseResponse \/ Recognize \/ Recognized \/ StartOcrPages
    \/ OcrGetPage \/ OcrSplit \/ OcrNewRegExp \/ OcrExecMatch
    \/ OcrNextKeyword \/ OcrPageDone
    \/ ReturnHighlights

Spec == Init /\ [][Next]_vars

(* The calls on single-page documents, with progress: one thread runs    *)
(* the call and every awaited collaborator settles, so a step that can be  *)
(* taken is taken.                                                         *)
FairInit == Init /\ pdf.numPages = 1
FairSpec == FairInit /\ [][Next]_vars /\ WF_vars(Next)

(***************************************************************************)
(* The text-layer path on one page drawn from a wider set of pages: every  *)
(* sequence of up to MaxRuns runs, each run one of RunChoices.  A run's    *)
(* horizontal origin is 10 units per character that precedes it on the     *)
(* page and its width 10 units per character of its own.  The keywords     *)
(* are literal: the empty one, "a" and "aa".                               *)
(***************************************************************************)
MaxRuns == 3

RunChoices ==
    { [str |-> <<"a">>, y |-> 100, height |-> 12],
      [str |-> <<"a", "b">>, y |-> 100, height |-> 14],
      [str |-> <<"A">>, y |-> 80, height |-> 12] }

RunsOf(cs) ==
    [i \in 1..Len(cs) |->
        Run(cs[i].str, 10 * Len(Concat([j \in 1..(i - 1) |-> cs[j].str])),
            cs[i].y, 10 * Len(cs[i].str), cs[i].height)]

LinePages ==
    { [items |-> RunsOf(cs), w |-> 200, h |-> 300, rot |-> 0]
      : cs \in UNION { [1..n -> RunChoices] : n \in 1..MaxRuns } }

LineKeywordSet == { <<>>, <<"a">>, <<"a", "a">> }

LineKeywordLists == UNION { [1..n -> LineKeywordSet] : n \in 1..MaxKeywords }

PageInit ==
    /\ keywords \in LineKeywordLists
    /\ pdf \in { [numPages |-> 1, pages |-> <<p>>] : p \in LinePages }
    /\ viewportZoom = 1
    /\ pc = "load"
    /\ path = "none"
    /\ pageNum = 0
    /\ highlights = <<>> /\ overflow = 0
    /\ returned = <<>>
    /\ outcome = "pending"
    /\ failedAt = "none"
    /\ calls = <<>>
    /\ itemIdx = 0 /\ lastY = Null /\ textLine = <<>> /\ lineItems = <<>> /\ lineNo = 0
    /\ kwIdx = 0 /\ lastIndex = 0 /\ ret = "none"
    /\ images = 0 /\ imgIdx = 0 /\ allOcr = <<>> /\ lineIdx = 0
    /\ HandlerIdle

(* the steps of searchPdf on a document whose first page has a text layer *)
PageNext ==
    \/ LoadDocument \/ ProbePage \/ ProbeText
    \/ GetPage \/ GetTextContent \/ GroupItem \/ GroupEnd
    \/ NewRegExp \/ ExecMatch \/ ProcessLineReturn
    \/ ReturnHighlights

PageSpec == PageInit /\ [][PageNext]_vars

(***************************************************************************)
(* The image-conversion handler, lines 300-320, serving up to MaxRequests  *)
(* requests one after the other.  A request body is an object; its pdfUrl  *)
(* is missing ("undefined"), the empty string or a URL.  `responses` holds *)
(* what was sent for the request being served, `conversion` how            *)
(* pdfToImg.convert settled for it, and `served` the requests that are     *)
(* over with what was converted and sent for each.                         *)
(***************************************************************************)
MaxRequests == 3

RequestBodies == { [pdfUrl |-> u] : u \in { "undefined", "", "doc.pdf" } }

(* `!pdfUrl` (line 304) *)
Falsy(u) == u \in { "undefined", "" }

ConvertedImages == { <<"png1">>, <<"png1", "png2">> }
ConvertErrors == { "bad pdf" }

searchVars == <<inputs, pc, path, pageNum, highlights, overflow, returned, outcome,
                failedAt, calls, groupVars, matchVars, ocrVars>>

Response(status, body) == [status |-> status, body |-> body]

(* a request arrives *)
Receive ==
    /\ hpc = "idle"
    /\ Len(served) < MaxRequests
    /\ reqBody' \in RequestBodies
    /\ hpc' = "check"
    /\ UNCHANGED <<searchVars, conversion, responses, served>>

(* CheckBody as it would be without `return` before res.status(400) *)
CheckBodyNoReturn ==
    /\ hpc = "check"
    /\ IF Falsy(reqBody.pdfUrl)
       THEN responses' = Append(responses,
                Response(400, [error |-> "pdfUrl is required in the request body"]))
       ELSE UNCHANGED responses
    /\ hpc' = "convert"
    /\ UNCHANGED <<searchVars, reqBody, conversion, served>>

(* lines 303-309: the test of pdfUrl, then either the 400 response or the  *)
(* call of pdfToImg.convert                                                *)
CheckBody ==
    /\ hpc = "check"
    /\ IF Falsy(reqBody.pdfUrl)
       THEN /\ responses' = Append(responses,
                   Response(400, [error |-> "pdfUrl is required in the request body"]))
            /\ hpc' = "end"
       ELSE /\ hpc' = "convert"
            /\ UNCHANGED responses
    /\ UNCHANGED <<searchVars, reqBody, conversion, served>>

(* lines 309-312: the conversion resolves and the images are sent *)
ConvertResolved ==
    /\ hpc = "convert"
    /\ \E imgs \in ConvertedImages :
          /\ conversion' = [state |-> "resolved", images |-> imgs, message |-> ""]
          /\ responses' = Append(responses, Response(200, imgs))
    /\ hpc' = "end"
    /\ UNCHANGED <<searchVars, reqBody, served>>

(* lines 309 and 313-319: the conversion rejects and the catch block       *)
(* answers                                                                 *)
ConvertRejected ==
    /\ hpc = "convert"
    /\ \E msg \in ConvertErrors :
          /\ conversion' = [state |-> "rejected", images |-> <<>>, message |-> msg]
          /\ responses' = Append(responses,
                 Response(500, [error |-> "Failed to convert PDF to images",
                                details |-> msg]))
    /\ hpc' = "end"
    /\ UNCHANGED <<searchVars, reqBody, served>>

(* the handler's promise settles: the request is over *)
HandlerReturn ==
    /\ hpc = "end"
    /\ served' = Append(served, [body |-> reqBody, conversion |-> conversion,
                                 responses |-> responses])
    /\ conversion' = NoConversion
    /\ responses' = <<>>
    /\ hpc' = "idle"
    /\ UNCHANGED <<searchVars, reqBody>>

HandlerInit ==
    /\ Init
    /\ keywords = <<>>
    /\ pdf = [numPages |-> 1, pages |-> <<PageBlank>>]
    /\ viewportZoom = 1

HandlerNext ==
    \/ Receive \/ CheckBody \/ ConvertResolved \/ ConvertRejected \/ HandlerReturn

HandlerSpec == HandlerInit /\ [][HandlerNext]_vars

(***************************************************************************)
(* The text-layer path as a function of the document: the highlights of    *)
(* lines 50-84 and 144-220 for one page, for patterns that do not match    *)
(* the empty string.                                                       *)
(***************************************************************************)
RECURSIVE AllMatches(_, _, _)
AllMatches(kw, text, lastIdx) ==
    LET m == RegexExec(kw, text, lastIdx)
    IN  IF m.found THEN <<m>> \o AllMatches(kw, text, m.lastIndex) ELSE <<>>

RECURSIVE GroupFrom(_, _, _, _)
GroupFrom(items, i, last, cur) ==
    IF i > Len(items) THEN (IF Len(cur) > 0 THEN <<cur>> ELSE <<>>)
    ELSE IF LineBreak(last, items[i], cur)
         THEN <<cur>> \o GroupFrom(items, i + 1, items[i].y, <<items[i]>>)
         ELSE GroupFrom(items, i + 1, items[i].y, Append(cur, items[i]))

(* the lines of a page, each the sequence of its items *)
GroupLines(items) == GroupFrom(items, 1, Null, <<>>)

LineText(runs) == Concat([i \in 1..Len(runs) |-> runs[i].str])

ProcessLine(runs, kws, pageNumber, vp, lineI) ==
    Concat([k \in 1..Len(kws) |->
        LET ms == AllMatches(kws[k], LineText(runs), 0)
        IN  [j \in 1..Len(ms) |->
                LineHighlight(runs, ms[j], pageNumber, vp, k, lineI)]])

PageResult(doc, p, kws, zoom) ==
    LET lines == GroupLines(doc.pages[p].items)
    IN  Concat([l \in 1..Len(lines) |->
            ProcessLine(lines[l], kws, p, GetViewport(doc.pages[p], zoom), l - 1)])

(* the highlights of pages 1..k *)
TextResult(doc, k, kws, zoom) ==
    Concat([p \in 1..k |-> PageResult(doc, p, kws, zoom)])

(***************************************************************************)
(* Helpers of the properties.                                              *)
(***************************************************************************)
Done == pc = "done"
CallsOf(ops) == SelectSeq(calls, LAMBDA c : c.op \in ops)
Ascending(hs) ==
    \A i, j \in 1..Len(hs) : i < j => hs[i].pageNumber <= hs[j].pageNumber

(* A call that leaves its exec loops never fills the tracked accumulator. *)
AccumulatorFits == Done => Len(highlights) < MaxHighlights

(***************************************************************************)
(* C1: wherever a step of searchPdf fails, the call does not throw or      *)
(* reject: the step that ends the call returns the accumulator exactly as  *)
(* it was before that step.                                                *)
(***************************************************************************)
C1_FailSoft ==
    [][(~Done /\ Done') =>
          (outcome' = "returned" /\ returned' = highlights)]_vars

(* a line threw on an invalid keyword after an earlier keyword had matched *)
C1_Witness ==
    /\ Done /\ failedAt = "keyword"
    /\ outcome = "returned" /\ Len(returned) > 0

(***************************************************************************)
(* C2: on the text-layer path, when pages 1..k were processed and the      *)
(* retrieval of page k+1 fails, the result is exactly the highlights of    *)
(* pages 1..k in the order they were produced, and holds nothing of a      *)
(* later page.                                                             *)
(***************************************************************************)
C2_PartialResult ==
    (Done /\ path = "text" /\ failedAt = "getPage" /\ pageNum > 1) =>
        /\ outcome = "returned"
        /\ returned = TextResult(pdf, pageNum - 1, keywords, viewportZoom)
        /\ \A i \in 1..Len(returned) : returned[i].pageNumber < pageNum

(* page 2 of a longer document could not be retrieved; page 1 had matches *)
C2_Witness ==
    /\ Done /\ path = "text" /\ failedAt = "getPage"
    /\ pageNum = 2 /\ pdf.numPages >= 2
    /\ Len(returned) > 0
    /\ Len(pdf.pages[2].items) > 0

(***************************************************************************)
(* C3: in every result, on either path and with or without a failure, the  *)
(* page numbers never decrease along the sequence.                         *)
(***************************************************************************)
C3_PageAscending == Ascending(highlights) /\ (Done => Ascending(returned))

(* a result of the OCR path that holds highlights of two pages *)
C3_Witness ==
    /\ Done /\ path = "ocr"
    /\ \E i, j \in 1..Len(returned) :
          i < j /\ returned[i].pageNumber < returned[j].pageNumber

(***************************************************************************)
(* C4: within one page of a result, highlights are in keyword input        *)
(* order, on the text-layer path and on the OCR path, also when the page   *)
(* has several lines.                                                      *)
(***************************************************************************)
KeywordOrdered(hs) ==
    \A i, j \in 1..Len(hs) :
        (i < j /\ hs[i].pageNumber = hs[j].pageNumber) => hs[i].kw <= hs[j].kw

C4_KeywordOrder == Done => KeywordOrdered(returned)

(***************************************************************************)
(* C5: when page 1 has at least one text run, the call never issues the    *)
(* image-conversion request or a recognition call, whatever the later      *)
(* pages hold.                                                             *)
(***************************************************************************)
C5_NoOcrWhenText ==
    Len(pdf.pages[1].items) > 0 => CallsOf({"fetch", "recognize"}) = <<>>

(* a completed call on a document whose page 2 has no text run *)
C5_Witness ==
    /\ Done /\ failedAt = "none" /\ path = "text"
    /\ pdf.numPages >= 2 /\ Len(pdf.pages[2].items) = 0
    /\ Len(returned) > 0

(***************************************************************************)
(* C6, as stated: when page 1 has no text run, the call issues exactly     *)
(* one conversion request and exactly N recognition calls, N the page      *)
(* count.                                                                  *)
(***************************************************************************)
C6_ExactlyNCalls ==
    (Done /\ path = "ocr") =>
        /\ Len(CallsOf({"fetch"})) = 1
        /\ Len(CallsOf({"recognize"})) = pdf.numPages

(***************************************************************************)
(* C6, amended: when page 1 has no text run, the call issues exactly one   *)
(* conversion request; it then issues one recognition call per image of    *)
(* the array the conversion returned, in array order, each only after the  *)
(* previous one has completed, and stops at the first step that fails.     *)
(* The calls number N when the array has N images and none of them fails.  *)
(***************************************************************************)
RecognitionOver ==
    \/ pc \in {"ocrGetPage", "ocrSplit", "ocrLine", "ocrExec"}
    \/ Done /\ failedAt \notin {"fetch", "json", "recognizing"}

C6_OcrCalls ==
    path = "ocr" =>
        LET r == CallsOf({"recognize"})
            pending == pc = "recognizing" \/ (Done /\ failedAt = "recognizing")
        IN  /\ Len(CallsOf({"fetch"})) = (IF pc = "fetch" THEN 0 ELSE 1)
            /\ \A i \in 1..Len(r) : r[i].arg = i
            /\ Len(r) <= images
            /\ Len(allOcr) = (IF pending THEN Len(r) - 1 ELSE Len(r))
            /\ RecognitionOver => Len(r) = images
            /\ (RecognitionOver /\ images = pdf.numPages) => Len(r) = pdf.numPages

(* a completed call on a two-page scan: two recognition calls *)
C6_Witness ==
    /\ Done /\ path = "ocr" /\ failedAt = "none"
    /\ pdf.numPages = 2 /\ images = 2
    /\ Len(CallsOf({"recognize"})) = 2

(***************************************************************************)
(* C7: with an empty keyword list the call makes no collaborator call      *)
(* after the document load and the probe of page 1 (getPage(1) and its     *)
(* getTextContent), and the result is empty.                               *)
(***************************************************************************)
C7_EmptyKeywords ==
    keywords = <<>> =>
        /\ Len(calls) <= 3
        /\ Done => returned = <<>>

(***************************************************************************)
(* C8: every call eventually returns, also for a keyword that is or can    *)
(* match the empty string, when every collaborator call settles.           *)
(***************************************************************************)
C8_Terminates == <>Done

(***************************************************************************)
(* C9, as stated: the y-values of a text-layer rectangle are               *)
(* viewport.height - projectedY of the two corners, ordered by min/max.    *)
(***************************************************************************)
PageViewport(h) == GetViewport(pdf.pages[h.pageNumber], viewportZoom)
ProjectedY1(h) == ConvertToViewportPoint(PageViewport(h), h.pre[1], h.pre[2])[2]
ProjectedY2(h) == ConvertToViewportPoint(PageViewport(h), h.pre[3], h.pre[4])[2]
TextHighlights == { i \in 1..Len(highlights) : highlights[i].path = "text" }

C9_SingleFlip ==
    \A i \in TextHighlights :
        LET h == highlights[i]
            f1 == PageViewport(h).height - ProjectedY1(h)
            f2 == PageViewport(h).height - ProjectedY2(h)
        IN  /\ h.boundingRect.y1 = Whole(Min(f1, f2))
            /\ h.boundingRect.y2 = Whole(Max(f1, f2))

(***************************************************************************)
(* C9, amended: each corner is mapped by the page viewport's projection    *)
(* followed by two vertical flips, the adjusted viewport's and             *)
(* processLine's, which cancel: the y-values of the rectangle are the      *)
(* projectedY of the two corners themselves, ordered by min/max.           *)
(***************************************************************************)
C9_DoubleFlip ==
    \A i \in TextHighlights :
        LET h == highlights[i]
        IN  /\ h.boundingRect.y1 = Whole(Min(ProjectedY1(h), ProjectedY2(h)))
            /\ h.boundingRect.y2 = Whole(Max(ProjectedY1(h), ProjectedY2(h)))
            /\ h.rects = <<h.boundingRect>>

(* a highlight at zoom 2 whose two corners project to different heights *)
C9_Witness ==
    /\ viewportZoom = 2
    /\ \E i \in TextHighlights :
          /\ ProjectedY1(highlights[i]) # ProjectedY2(highlights[i])
          /\ 2 * ProjectedY1(highlights[i]) # PageViewport(highlights[i]).height

(***************************************************************************)
(* C10: every highlight of every result, of either path, has y1 <= y2 in   *)
(* boundingRect and in rects[0], whichever corner maps to the larger y.    *)
(***************************************************************************)
YOrdered(h) ==
    /\ FracLeq(h.boundingRect.y1, h.boundingRect.y2)
    /\ FracLeq(h.rects[1].y1, h.rects[1].y2)

C10_YOrdered ==
    /\ \A i \in 1..Len(highlights) : YOrdered(highlights[i])
    /\ Done => \A i \in 1..Len(returned) : YOrdered(returned[i])

(* one result in which the first corner maps above the second for one     *)
(* highlight and below it for another                                      *)
C10_Witness ==
    /\ Done
    /\ \E i, j \in 1..Len(returned) :
          /\ returned[i].path = "text" /\ returned[j].path = "text"
          /\ ProjectedY1(returned[i]) > ProjectedY2(returned[i])
          /\ ProjectedY1(returned[j]) < ProjectedY2(returned[j])

(* a result of the OCR path with a match on a line after the first *)
C10_OcrCase ==
    Done /\ \E i \in 1..Len(returned) :
                returned[i].path = "ocr" /\ returned[i].line > 0

(***************************************************************************)
(* A reference literal search, written without the pattern operators:      *)
(* the 0-based offsets of the occurrences of K in L found from left to     *)
(* right, the search resuming at the end of each occurrence, letters       *)
(* compared by their upper case.                                           *)
(***************************************************************************)
Upper(c) == IF c = "a" THEN "A" ELSE IF c = "b" THEN "B" ELSE c

OccursAt(K, L, i) ==
    /\ i + Len(K) <= Len(L)
    /\ [j \in 1..Len(K) |-> Upper(L[i + j])] = [j \in 1..Len(K) |-> Upper(K[j])]

RECURSIVE RefOccurrences(_, _, _)
RefOccurrences(K, L, i) ==
    IF i + Len(K) > Len(L) THEN <<>>
    ELSE IF OccursAt(K, L, i)
         THEN <<i>> \o RefOccurrences(K, L, i + Max(1, Len(K)))
         ELSE RefOccurrences(K, L, i + 1)

NoMetachar(K) == \A i \in 1..Len(K) : K[i] \notin { ".", "(" }

(* the highlights of keyword number k on line number lineI of the page     *)
(* being searched                                                          *)
HighlightsOf(hs, lineI, k) ==
    SelectSeq(hs, LAMBDA h : h.pageNumber = pageNum /\ h.line = lineI /\ h.kw = k)

(* processLine is running on the line in textLine and lineItems; the       *)
(* keywords before kwIdx have left their exec loops                        *)
InProcessLine == path = "text" /\ pc \in { "keyword", "exec" }

(* C11: for a line text L and a keyword K without a pattern metacharacter, *)
(* the highlights processLine appends for K on L are as many as the        *)
(* occurrences of K in L that a literal, case-insensitive, left-to-right,  *)
(* non-overlapping search finds, and the content text of each is the       *)
(* substring of L at that occurrence: while the exec loop of K runs they   *)
(* are the first of these occurrences, once it has ended all of them.      *)
C11_LiteralCount ==
    InProcessLine =>
        \A k \in 1..Min(kwIdx, Len(keywords)) :
            NoMetachar(keywords[k]) =>
                LET hs == HighlightsOf(highlights, lineNo, k)
                    occ == RefOccurrences(keywords[k], textLine, 0)
                IN  /\ Len(hs) <= Len(occ)
                    /\ k < kwIdx => Len(hs) = Len(occ)
                    /\ \A j \in 1..Len(hs) :
                          hs[j].content
                            = SubSeq(textLine, occ[j] + 1, occ[j] + Len(keywords[k]))

RECURSIVE SumLen(_)
SumLen(runs) == IF runs = <<>> THEN 0 ELSE Len(Head(runs).str) + SumLen(Tail(runs))

(* C12: whenever processLine runs for the line-grouping loop, on a line    *)
(* flushed in mid-page or on the last line, the text it was given is the   *)
(* concatenation in order of the texts of the runs it was given, and the   *)
(* lengths of those texts add up to the length of the line text.           *)
C12_TextIsConcat ==
    InProcessLine =>
        /\ ret \in { "mid", "last" }
        /\ textLine = Concat([i \in 1..Len(lineItems) |-> lineItems[i].str])
        /\ Len(textLine) = SumLen(lineItems)

(* the last line of a page, made of two runs, after a line was flushed *)
C12_Witness ==
    /\ InProcessLine /\ kwIdx = 1 /\ pc = "keyword"
    /\ ret = "last" /\ lineNo = 1
    /\ Len(lineItems) = 2
    /\ Len(textLine) = 3

(* what the handler owes a request with this body whose conversion        *)
(* settled this way                                                        *)
ProperResponse(body, conv, r) ==
    IF Falsy(body.pdfUrl)
    THEN /\ r.status = 400
         /\ "error" \in DOMAIN r.body
         /\ conv.state = "none"
    ELSE IF conv.state = "resolved"
         THEN r.status = 200 /\ r.body = conv.images
         ELSE /\ conv.state = "rejected"
              /\ r.status = 500
              /\ "details" \in DOMAIN r.body
              /\ r.body.details = conv.message

CumEnd(runs, i) == SumLen(SubSeq(runs, 1, i))

(* the first run in line order whose end offset is greater than `off` *)
FirstRunPast(runs, off) ==
    SetMin({ i \in 1..Len(runs) : CumEnd(runs, i) > off })

(* the first run in line order whose end offset is at least `off` *)
FirstRunReaching(runs, off) ==
    SetMin({ i \in 1..Len(runs) : CumEnd(runs, i) >= off })

(* the highlights of the line processLine is running on *)
CurrentLineHighlights ==
    { h \in { highlights[i] : i \in 1..Len(highlights) } :
        h.pageNumber = pageNum /\ h.line = lineNo }

(* C14: for every match in a line, the run whose origin gives x1 and y1    *)
(* of the box before the transform is the first run in line order whose    *)
(* cumulative end offset is greater than the start offset of the match,    *)
(* also for a match that starts in the first run and ends in a later one.  *)
C14_StartRun ==
    InProcessLine =>
        \A h \in CurrentLineHighlights :
            LET startRun == lineItems[FirstRunPast(lineItems, h.index)]
            IN  h.pre[1] = startRun.x /\ h.pre[2] = startRun.y

(* H is the height of the tallest run of the line *)
TallestHeight(runs, H) ==
    /\ \E i \in 1..Len(runs) : runs[i].height = H
    /\ \A i \in 1..Len(runs) : runs[i].height <= H

(* C15: the far corner of the box before the transform is                  *)
(* (endRun.originX + endRun.width, startRun.originY + H): endRun is the    *)
(* first run whose cumulative end offset is at least the end offset of the *)
(* match, startRun the first run whose cumulative end offset is greater    *)
(* than its start offset, H the greatest height over all runs of the line. *)
C15_FarCorner ==
    InProcessLine =>
        \A h \in CurrentLineHighlights :
            LET endRun == lineItems[FirstRunReaching(lineItems,
                                                    h.index + Len(h.content))]
                startRun == lineItems[FirstRunPast(lineItems, h.index)]
            IN  /\ h.pre[3] = endRun.x + endRun.width
                /\ TallestHeight(lineItems, h.pre[4] - startRun.y)

(* a match that ends with the first run of a line whose second run is      *)
(* taller than the first                                                   *)
C15_Witness ==
    /\ InProcessLine
    /\ Len(lineItems) >= 2
    /\ \E h \in CurrentLineHighlights :
          /\ CumEnd(lineItems, 1) = h.index + Len(h.content)
          /\ h.pre[3] = lineItems[1].x + lineItems[1].width
          /\ h.pre[4] - h.pre[2] > lineItems[1].height

(* the number of places before position n where two adjacent runs have    *)
(* different vertical origins                                              *)
BreaksBefore(items, n) ==
    Cardinality({ i \in 1..(n - 1) : items[i].y # items[i + 1].y })

(* C16: the lines handed to processLine partition the runs of a page into  *)
(* consecutive non-empty groups in input order, every run in exactly one   *)
(* line: the line is the block of runs that ends just before the position  *)
(* of the grouping loop, it is the next block in order, adjacent runs     *)
(* inside it have equal vertical origins and the runs next to it on either *)
(* side have a different one; when the page is over every block has been   *)
(* handed over.                                                            *)
C16_LinesPartition ==
    /\ InProcessLine =>
          LET items == CurrentPage.items
              first == itemIdx - Len(lineItems)
              last == itemIdx - 1
          IN  /\ Len(lineItems) > 0
              /\ lineItems = SubSeq(items, first, last)
              /\ \A i \in first..(last - 1) : items[i].y = items[i + 1].y
              /\ first > 1 => items[first - 1].y # items[first].y
              /\ last < Len(items) => items[last].y # items[last + 1].y
              /\ lineNo = BreaksBefore(items, first)
              /\ ret = "last" <=> last = Len(items)
    /\ (path = "text" /\ pc = "getPage" /\ pageNum > 1
          /\ Len(pdf.pages[pageNum - 1].items) > 0) =>
          LET items == pdf.pages[pageNum - 1].items
          IN  /\ itemIdx = Len(items) + 1
              /\ lineNo = BreaksBefore(items, Len(items))

(* the third line of a page whose first line has the same vertical origin *)
C16_Witness ==
    /\ InProcessLine /\ ret = "last" /\ lineNo = 2
    /\ Len(CurrentPage.items) = 3
    /\ lineItems = <<CurrentPage.items[3]>>
    /\ CurrentPage.items[1].y = CurrentPage.items[3].y

(* highlights number i and j > i of one line of the text-layer path: the   *)
(* keyword of the first is not later in the list, and two of one keyword   *)
(* are at strictly increasing start offsets and do not overlap             *)
InLineOrder(a, b) ==
    /\ a.kw <= b.kw
    /\ a.kw = b.kw =>
          a.index < b.index /\ a.index + Len(a.content) <= b.index

(* C17: the highlights processLine appends for one line are, keyword by    *)
(* keyword in input order, the matches of that keyword in strictly         *)
(* increasing start offset, no two of one keyword overlapping; nothing is  *)
(* dropped because another keyword, or the same keyword listed again,      *)
(* matched there: once the loop of a keyword has ended every offset where  *)
(* its pattern matches the line lies inside one of its highlights.         *)
C17_LineOrder ==
    /\ \A i, j \in 1..Len(highlights) :
          (/\ i < j
           /\ highlights[i].path = "text" /\ highlights[j].path = "text"
           /\ highlights[i].pageNumber = highlights[j].pageNumber
           /\ highlights[i].line = highlights[j].line)
          => InLineOrder(highlights[i], highlights[j])
    /\ InProcessLine =>
          \A k \in 1..(kwIdx - 1) :
              LET hs == HighlightsOf(highlights, lineNo, k)
              IN  /\ \A n \in 1..Len(hs) :
                        /\ MatchesAt(keywords[k], textLine, hs[n].index)
                        /\ Len(hs[n].content) = Len(keywords[k])
                  /\ \A off \in 0..(Len(textLine) - 1) :
                        MatchesAt(keywords[k], textLine, off) =>
                            \E n \in 1..Len(hs) :
                                /\ hs[n].index <= off
                                /\ off < hs[n].index + Len(hs[n].content)

OcrHighlights == { i \in 1..Len(highlights) : highlights[i].path = "ocr" }

(* C18: on the OCR path the highlight of a match [start, end) in line      *)
(* number lineIndex (from 0) of the totalLines lines of a page's text has  *)
(* y1 = viewport.height * lineIndex / totalLines, y2 = y1 + 12,            *)
(* x1 = viewport.width * start / lineLength and                            *)
(* x2 = viewport.width * end / lineLength: no projection and no flip.      *)
(* The accumulator grows at its end only, so every highlight is the last   *)
(* one in the state its push leads to; the formula reads that one.         *)
C18_OcrEstimate ==
    (path = "ocr" /\ Len(highlights) > 0) =>
        LET h == highlights[Len(highlights)]
            r == h.boundingRect
            vp == PageViewport(h)
            text == allOcr[h.pageNumber]
            totalLines == 1 + Cardinality({ n \in 1..Len(text) : text[n] = "\n" })
            lineLength == Len(Split(text)[h.line + 1])
            start == h.index
            end == h.index + Len(h.content)
        IN  /\ h.path = "ocr"
            /\ FracEq(r.y1, Frac(vp.height * h.line, totalLines))
            /\ FracEq(r.y2, Frac(r.y1.n + 12 * r.y1.d, r.y1.d))
            /\ FracEq(r.x1, Frac(vp.width * start, lineLength))
            /\ FracEq(r.x2, Frac(vp.width * end, lineLength))
            /\ h.rects = <<r>>

(* the match of "." on the "b" of "Ab", the second of two lines, on a page *)
(* 200 wide and 300 high at zoom 2                                         *)
C18_Witness ==
    \E i \in OcrHighlights :
        LET h == highlights[i]
        IN  /\ h.line = 1 /\ h.index = 1 /\ h.content = <<"b">>
            /\ viewportZoom = 2 /\ h.pageNumber = 1
            /\ FracEq(h.boundingRect.y1, Whole(300))
            /\ FracEq(h.boundingRect.y2, Whole(312))
            /\ FracEq(h.boundingRect.x1, Whole(200))
            /\ FracEq(h.boundingRect.x2, Whole(400))

(* the positions in `calls` of the calls of collaborator `op` *)
CallPositions(op) == { i \in 1..Len(calls) : calls[i].op = op }

(* C19: on the OCR path the conversion request (fetch and response.json)   *)
(* completes before the first recognition call, and every recognition call *)
(* completes before the first highlight is appended; so the result is      *)
(* empty when the conversion request or any recognition call fails, also   *)
(* the one for a late page.                                                *)
C19_OcrStepOrder ==
    path = "ocr" =>
        /\ CallPositions("recognize") # {} =>
              /\ pc \notin { "fetch", "json" }
              /\ failedAt \notin { "fetch", "json" }
              /\ \A i \in CallPositions("fetch"), j \in CallPositions("recognize") : i < j
        /\ (Len(highlights) > 0 \/ overflow # 0) =>
              /\ pc # "recognizing" /\ failedAt # "recognizing"
              /\ Cardinality(CallPositions("recognize")) = images
              /\ Len(allOcr) = images
        /\ (Done /\ failedAt \in { "fetch", "json", "recognizing" }) => returned = <<>>

(* the recognition of the second image fails after the first one gave a    *)
(* text that the keyword matches: the result is empty                      *)
C19_Witness ==
    /\ Done /\ path = "ocr" /\ failedAt = "recognizing"
    /\ images = 2 /\ Len(allOcr) = 1
    /\ keywords = << <<".">> >>
    /\ returned = <<>>

InvalidKeywords == { k \in 1..Len(keywords) : ~ValidPattern(keywords[k]) }

(* C20: when the keyword list holds a keyword that is not a valid pattern, *)
(* a text-layer search aborts at the first attempt to use it, which is on  *)
(* the first line of page 1: the accumulator never holds anything but      *)
(* highlights of that line for the keywords that precede it in the list,   *)
(* the search does not end without a failure, and when it ends at that     *)
(* keyword the result is what processLine gives for the first line and     *)
(* the keywords that precede it.                                           *)
C20_InvalidAborts ==
    (path = "text" /\ InvalidKeywords # {}) =>
        LET bad == SetMin(InvalidKeywords)
        IN  /\ \A i \in 1..Len(highlights) :
                  /\ highlights[i].pageNumber = 1
                  /\ highlights[i].line = 0
                  /\ highlights[i].kw < bad
            /\ Done => failedAt # "none" /\ returned = highlights
            /\ (Done /\ failedAt = "keyword") =>
                  /\ pageNum = 1 /\ lineNo = 0 /\ kwIdx = bad
                  /\ returned
                       = ProcessLine(GroupLines(pdf.pages[1].items)[1],
                                     SubSeq(keywords, 1, bad - 1), 1,
                                     GetViewport(pdf.pages[1], viewportZoom), 0)

(* "." then "(" on a page of two lines: the one match of "." on the first  *)
(* line is returned, its two matches on the second line are not            *)
C20_Witness ==
    /\ Done /\ path = "text" /\ failedAt = "keyword"
    /\ keywords = << <<".">>, <<"(">> >>
    /\ pdf.pages[1] = PageTwoLines
    /\ Len(returned) = 1 /\ returned[1].line = 0

====
